---- MODULE Spec2Model ----
(***************************************************************************)
(* ros2graph/api/__init__.py: the name resolver (parse_node_name,          *)
(* get_node_names, get_topics and the get_*_info functions, the global id  *)
(* counter) and DotWriter, the DOT text emitter.                           *)
(*                                                                         *)
(* A Python str is a sequence of one-character strings; Ord gives the code *)
(* point of a character, which is what Python compares strings by.         *)
(***************************************************************************)
EXTENDS Integers, Sequences, FiniteSets, TLC

VARIABLES
    g_id,      \* the module global g_id
    issued,    \* history: the values get_id has returned, in order
    result,    \* the last resolver call: its arguments and what it returned
    repeat,    \* history: the last two calls were parse_node_name of one name
    sinkA,     \* the text in the sink (fp) of writer A
    sinkB,     \* the text in the sink of writer B, a second DotWriter
    calls,     \* history: the calls issued to writer A, in order
    lastA,     \* writer A's last call: sink before, text written, error, keys
    lastB      \* writer B's last call

vars == <<g_id, issued, result, repeat, sinkA, sinkB, calls, lastA, lastB>>

resolverVars == <<g_id, issued, result, repeat>>

writerVars == <<sinkA, sinkB, calls, lastA, lastB>>

(***************************************************************************)
(* Bounds of the model.                                                    *)
(***************************************************************************)
MaxNameLen == 3     \* longest node name given to the resolver

MaxIds == 11        \* the resolver stops issuing ids at this counter value

MaxPairs == 2       \* longest raw list the introspection layer returns

MaxCalls == 2       \* longest call sequence issued to a writer

MaxAttrs == 2       \* most attributes in one call of the statement model

MaxStrLen == 3      \* longest string given to DotWriter.id on its own

(***************************************************************************)
(* Python str and int operations.                                          *)
(***************************************************************************)
Ord(c) ==
    CASE c = "\t" -> 9
      [] c = "\n" -> 10
      [] c = " " -> 32
      [] c = "\"" -> 34
      [] c = "/" -> 47
      [] c = "0" -> 48
      [] c = "1" -> 49
      [] c = "7" -> 55
      [] c = "B" -> 66
      [] c = "\\" -> 92
      [] c = "_" -> 95
      [] c = "a" -> 97
      [] c = "b" -> 98
      [] c = "n" -> 110
      [] c = "t" -> 116
      [] c = "x" -> 120
      [] c = "y" -> 121

Digits == <<"0", "1", "2", "3", "4", "5", "6", "7", "8", "9">>

AlnumChars == {Digits[i] : i \in 1..10} \cup {"B", "a", "b", "n", "t", "x", "y"}

\* every string over alphabet of length at most n
StringsUpTo(alphabet, n) == UNION {[1..k -> alphabet] : k \in 0..n}

\* s.startswith(p)
startswith(s, p) == Len(s) >= Len(p) /\ SubSeq(s, 1, Len(p)) = p

\* s.endswith(p)
endswith(s, p) == Len(s) >= Len(p) /\ SubSeq(s, Len(s) - Len(p) + 1, Len(s)) = p

\* s.isalnum(): every character alphanumeric and at least one character
isalnum(s) == Len(s) >= 1 /\ \A i \in 1..Len(s) : s[i] \in AlnumChars

\* a < b for two str: by code point, a proper prefix first
RECURSIVE StrLess(_, _)
StrLess(a, b) ==
    IF b = <<>> THEN FALSE
    ELSE IF a = <<>> THEN TRUE
    ELSE IF Ord(Head(a)) # Ord(Head(b)) THEN Ord(Head(a)) < Ord(Head(b))
    ELSE StrLess(Tail(a), Tail(b))

\* str(n) for a natural number
RECURSIVE NatStr(_)
NatStr(n) == IF n < 10 THEN <<Digits[n + 1]>> ELSE NatStr(n \div 10) \o <<Digits[(n % 10) + 1]>>

\* str(n) for an int
IntStr(n) == IF n < 0 THEN <<"-">> \o NatStr(0 - n) ELSE NatStr(n)

\* s.replace(old, new) for a one-character old
RECURSIVE replace(_, _, _)
replace(s, old, new) ==
    IF s = <<>> THEN <<>>
    ELSE (IF Head(s) = old THEN new ELSE <<Head(s)>>) \o replace(Tail(s), old, new)

\* the largest index of sep in s, 0 when s holds none
RECURSIVE rfind(_, _)
rfind(s, sep) ==
    IF s = <<>> THEN 0
    ELSE IF s[Len(s)] = sep THEN Len(s)
    ELSE rfind(SubSeq(s, 1, Len(s) - 1), sep)

\* s.rsplit(sep, 1): the list of one or two parts
rsplit1(s, sep) ==
    LET i == rfind(s, sep)
    IN  IF i = 0 THEN <<s>>
        ELSE <<SubSeq(s, 1, i - 1), SubSeq(s, i + 1, Len(s))>>

\* s.split(sep): the list of parts, one more than the separators
RECURSIVE split(_, _)
split(s, sep) ==
    LET i == rfind(s, sep)
    IN  IF i = 0 THEN <<s>>
        ELSE Append(split(SubSeq(s, 1, i - 1), sep), SubSeq(s, i + 1, Len(s)))

(***************************************************************************)
(* The name resolver.                                                      *)
(***************************************************************************)
\* rclpy.node.HIDDEN_NODE_PREFIX
HIDDEN_NODE_PREFIX == <<"_">>

NODE_PREFIX == <<"n", "o", "d", "e", "_">>

NodeName(name, namespace, full_name, id) ==
    [name |-> name, namespace |-> namespace, full_name |-> full_name, id |-> id]

TopicInfo(name, types) == [name |-> name, types |-> types]

NoNodeName == NodeName(<<>>, <<>>, <<>>, <<>>)

\* any(part.startswith(HIDDEN_NODE_PREFIX) for part in name.split('/'))
_is_hidden_name(name) ==
    LET parts == split(name, "/")
    IN  \E i \in 1..Len(parts) : startswith(parts[i], HIDDEN_NODE_PREFIX)

\* get_absolute_node_name: ok is FALSE where the function returns None
get_absolute_node_name(node_name) ==
    IF node_name = <<>> THEN [ok |-> FALSE, name |-> <<>>]
    ELSE IF node_name[1] # "/" THEN [ok |-> TRUE, name |-> <<"/">> \o node_name]
    ELSE [ok |-> TRUE, name |-> node_name]

\* len(set(values)) < len(values)
has_duplicates(values) == Cardinality({values[i] : i \in 1..Len(values)}) < Len(values)

\* a get_id that hands the counter out without advancing it
get_id_stuck(s, g) == [g |-> g, id |-> s \o IntStr(g + 1)]

\* get_id with the counter at g: the counter after the call and the id returned
get_id(s, g) == [g |-> g + 1, id |-> s \o IntStr(g + 1)]

\* a parse_node_name that takes the name as given, without the leading '/'
parse_node_name_noprefix(node_name, g) ==
    LET parts == rsplit1(node_name, "/")
    IN  IF Len(parts) # 2
        THEN [err |-> "ValueError", rec |-> NoNodeName, g |-> g, ids |-> <<>>]
        ELSE LET namespace == IF parts[1] = <<>> THEN <<"/">> ELSE parts[1]
                 r == get_id(NODE_PREFIX, g)
             IN  [err |-> "", rec |-> NodeName(parts[2], namespace, node_name, r.id),
                  g |-> r.g, ids |-> <<r.id>>]

\* parse_node_name with the counter at g: the record, the counter after the
\* call and the ids get_id returned; unpacking a one-part rsplit raises
parse_node_name(node_name, g) ==
    LET full_node_name == IF startswith(node_name, <<"/">>) THEN node_name
                          ELSE <<"/">> \o node_name
        parts == rsplit1(full_node_name, "/")
    IN  IF Len(parts) # 2
        THEN [err |-> "ValueError", rec |-> NoNodeName, g |-> g, ids |-> <<>>]
        ELSE LET namespace == IF parts[1] = <<>> THEN <<"/">> ELSE parts[1]
                 r == get_id(NODE_PREFIX, g)
             IN  [err |-> "", rec |-> NodeName(parts[2], namespace, full_node_name, r.id),
                  g |-> r.g, ids |-> <<r.id>>]

\* a condition that filters hidden and empty names whatever the flag says
NodeShown_strict(t, include_hidden_nodes) ==
    t[1] # <<>> /\ ~startswith(t[1], HIDDEN_NODE_PREFIX)

\* the condition of get_node_names' comprehension
NodeShown(t, include_hidden_nodes) ==
    include_hidden_nodes \/ (t[1] # <<>> /\ ~startswith(t[1], HIDDEN_NODE_PREFIX))

\* get_node_names over the raw (name, namespace) pairs the node returned,
\* with the counter at g: the comprehension, left to right
RECURSIVE get_node_names(_, _, _)
get_node_names(raw, include_hidden_nodes, g) ==
    IF raw = <<>> THEN [recs |-> <<>>, g |-> g, ids |-> <<>>]
    ELSE LET t == Head(raw)
         IN  IF ~NodeShown(t, include_hidden_nodes)
             THEN get_node_names(Tail(raw), include_hidden_nodes, g)
             ELSE LET r == get_id(NODE_PREFIX, g)
                      rest == get_node_names(Tail(raw), include_hidden_nodes, r.g)
                      sep == IF endswith(t[2], <<"/">>) THEN <<>> ELSE <<"/">>
                  IN  [recs |-> <<NodeName(t[1], t[2], t[2] \o sep \o t[1], r.id)>> \o rest.recs,
                       g |-> rest.g, ids |-> <<r.id>> \o rest.ids]

\* the comprehension of get_topics and of the two get_action_*_info
RECURSIVE TopicList(_, _)
TopicList(names_and_types, include_hidden) ==
    IF names_and_types = <<>> THEN <<>>
    ELSE LET t == Head(names_and_types)
             rest == TopicList(Tail(names_and_types), include_hidden)
         IN  IF include_hidden \/ ~_is_hidden_name(t[1])
             THEN <<TopicInfo(t[1], t[2])>> \o rest
             ELSE rest

\* get_topics: func(node.name, node.namespace) returned names_and_types
get_topics(remote_node_name, names_and_types, include_hidden_topics, g) ==
    LET node == parse_node_name(remote_node_name, g)
    IN  IF node.err # "" THEN [err |-> node.err, topics |-> <<>>, g |-> node.g, ids |-> node.ids]
        ELSE [err |-> "", topics |-> TopicList(names_and_types, include_hidden_topics),
              g |-> node.g, ids |-> node.ids]

\* get_action_server_info and get_action_client_info
get_action_info(remote_node_name, names_and_types, include_hidden, g) ==
    LET remote_node == parse_node_name(remote_node_name, g)
    IN  IF remote_node.err # ""
        THEN [err |-> remote_node.err, topics |-> <<>>, g |-> remote_node.g, ids |-> remote_node.ids]
        ELSE [err |-> "", topics |-> TopicList(names_and_types, include_hidden),
              g |-> remote_node.g, ids |-> remote_node.ids]

(***************************************************************************)
(* Values passed to the writer.  t is the Python type of the value: int,   *)
(* float and bool are instances of (int, float), str is str, NoneType is   *)
(* None, list is a value of any other type.  A float is n tenths.          *)
(***************************************************************************)
Val(t, n, s) == [t |-> t, n |-> n, s |-> s]

IntV(n) == Val("int", n, <<>>)

FloatV(tenths) == Val("float", tenths, <<>>)

BoolV(b) == Val("bool", IF b THEN 1 ELSE 0, <<>>)

StrV(s) == Val("str", 0, s)

NoneV == Val("NoneType", 0, <<>>)

ListV == Val("list", 0, <<>>)

\* isinstance(v, (int, float)): bool is a subclass of int
IsNumber(v) == v.t \in {"int", "float", "bool"}

\* isinstance(v, str)
IsStr(v) == v.t = "str"

\* str(v) for an int, a float of one decimal or a bool
pystr(v) ==
    CASE v.t = "int" -> IntStr(v.n)
      [] v.t = "float" -> NatStr(v.n \div 10) \o <<".">> \o NatStr(v.n % 10)
      [] v.t = "bool" -> IF v.n = 1 THEN <<"T", "r", "u", "e">>
                         ELSE <<"F", "a", "l", "s", "e">>

(***************************************************************************)
(* DotWriter.  A writer in the middle of a call is w: fp is the text in    *)
(* its sink, err the exception raised so far in the call ("" for none),    *)
(* keys the attribute names key_value was called with (history).  Every    *)
(* statement of a method is skipped once an exception is raised.           *)
(***************************************************************************)
Writer(fp) == [fp |-> fp, err |-> "", keys |-> <<>>]

\* DotWriter.write: self._fp.write(s)
write(w, s) == IF w.err # "" THEN w ELSE [w EXCEPT !.fp = @ \o s]

\* an escape that doubles the backslashes last
escape_backslash_last(s) ==
    LET s1 == replace(s, "\n", <<"\\", "n">>)
        s2 == replace(s1, "\t", <<"\\", "t">>)
        s3 == replace(s2, "\"", <<"\\", "\"">>)
        s4 == replace(s3, "\\", <<"\\", "\\">>)
    IN  <<"\"">> \o s4 \o <<"\"">>

\* DotWriter.escape
escape(s) ==
    LET s1 == replace(s, "\\", <<"\\", "\\">>)
        s2 == replace(s1, "\n", <<"\\", "n">>)
        s3 == replace(s2, "\t", <<"\\", "t">>)
        s4 == replace(s3, "\"", <<"\\", "\"">>)
    IN  <<"\"">> \o s4 \o <<"\"">>

\* an id that writes a value of an unsupported type as an empty string
id_lenient(w, v) ==
    IF w.err # "" THEN w
    ELSE IF IsNumber(v) THEN write(w, pystr(v))
    ELSE IF IsStr(v)
         THEN IF isalnum(v.s) /\ ~startswith(v.s, <<"0", "x">>) THEN write(w, v.s)
              ELSE write(w, escape(v.s))
    ELSE write(w, <<"\"", "\"">>)

\* DotWriter.id
id(w, v) ==
    IF w.err # "" THEN w
    ELSE IF IsNumber(v) THEN write(w, pystr(v))
    ELSE IF IsStr(v)
         THEN IF isalnum(v.s) /\ ~startswith(v.s, <<"0", "x">>) THEN write(w, v.s)
              ELSE write(w, escape(v.s))
    ELSE [w EXCEPT !.err = "TypeError"]

\* DotWriter.clean
clean(dirty) == [i \in 1..Len(dirty) |-> IF isalnum(<<dirty[i]>>) THEN dirty[i] ELSE "_"]

\* DotWriter.key_value; the key of **attrs is a str
key_value(w, key, value) ==
    IF w.err # "" THEN w
    ELSE id(write(id([w EXCEPT !.keys = Append(@, key)], StrV(key)), <<"=">>), value)

(***************************************************************************)
(* A dict is the sequence of its items [k, v] in insertion order, the keys *)
(* distinct.                                                               *)
(***************************************************************************)
dict_keys(d) == [i \in 1..Len(d) |-> d[i].k]

dict_get(d, key) == d[CHOOSE i \in 1..Len(d) : d[i].k = key].v

\* key put into the sorted list keys, before the first larger one
RECURSIVE insort(_, _)
insort(keys, key) ==
    IF keys = <<>> THEN <<key>>
    ELSE IF StrLess(key, Head(keys)) THEN <<key>> \o keys
    ELSE <<Head(keys)>> \o insort(Tail(keys), key)

\* keys.sort()
RECURSIVE sort(_)
sort(keys) == IF keys = <<>> THEN <<>> ELSE insort(sort(Tail(keys)), Head(keys))

\* the items in insertion order
sorted_iteritems_unsorted(d) == [i \in 1..Len(d) |-> <<d[i].k, d[i].v>>]

\* sorted_iteritems: the (key, value) pairs it yields, in order
sorted_iteritems(d) ==
    LET keys == sort(dict_keys(d))
    IN  [i \in 1..Len(keys) |-> <<keys[i], dict_get(d, keys[i])>>]

\* the loop of attr_list over the items left, first as the loop left it
RECURSIVE attr_list_loop(_, _, _)
attr_list_loop(w, items, first) ==
    IF items = <<>> \/ w.err # "" THEN w
    ELSE LET name == Head(items)[1]
             value == Head(items)[2]
         IN  IF value = NoneV THEN attr_list_loop(w, Tail(items), first)
             ELSE attr_list_loop(
                      key_value(IF first THEN w ELSE write(w, <<",", " ">>), name, value),
                      Tail(items), FALSE)

\* DotWriter.attr_list
attr_list(w, attrs) ==
    IF w.err # "" THEN w
    ELSE IF attrs = <<>> THEN w
    ELSE write(attr_list_loop(write(w, <<" ", "[">>), sorted_iteritems(attrs), TRUE), <<"]">>)

\* the loop of begin_graph and begin_subgraph over the items left
RECURSIVE graph_attrs_loop(_, _)
graph_attrs_loop(w, items) ==
    IF items = <<>> \/ w.err # "" THEN w
    ELSE LET name == Head(items)[1]
             value == Head(items)[2]
         IN  IF value = NoneV THEN graph_attrs_loop(w, Tail(items))
             ELSE graph_attrs_loop(
                      write(key_value(write(w, <<"\t">>), name, value), <<";", "\n">>),
                      Tail(items))

\* DotWriter.begin_graph
begin_graph(w, attrs) ==
    graph_attrs_loop(write(w, <<"d", "i", "g", "r", "a", "p", "h", " ", "{", "\n">>),
                     sorted_iteritems(attrs))

\* an end_graph that closes nothing when nothing was written
end_graph_checked(w) == IF w.fp = <<>> THEN w ELSE write(w, <<"}", "\n">>)

\* DotWriter.end_graph
end_graph(w) == write(w, <<"}", "\n">>)

\* DotWriter.begin_subgraph
begin_subgraph(w, subgraph, attrs) ==
    graph_attrs_loop(
        write(id(write(w, <<"s", "u", "b", "g", "r", "a", "p", "h", " ">>), subgraph),
              <<" ", "{", "\n">>),
        sorted_iteritems(attrs))

\* DotWriter.end_subgraph
end_subgraph(w) == write(w, <<"}", "\n">>)

\* DotWriter.attr; what is a str
attr(w, what, attrs) ==
    write(attr_list(write(write(w, <<"\t">>), what), attrs), <<";", "\n">>)

\* a node that puts nothing in the sink when the statement fails
node_atomic(w, n, attrs) ==
    LET r == write(attr_list(id(write(w, <<"\t">>), n), attrs), <<";", "\n">>)
    IN  IF r.err # "" THEN [r EXCEPT !.fp = w.fp] ELSE r

\* DotWriter.node
node(w, n, attrs) ==
    write(attr_list(id(write(w, <<"\t">>), n), attrs), <<";", "\n">>)

\* DotWriter.edge
edge(w, src, dst, attrs) ==
    write(attr_list(id(write(id(write(w, <<"\t">>), src), <<" ", "-", ">", " ">>), dst), attrs),
          <<";", "\n">>)

(***************************************************************************)
(* The writers as a state machine: the caller issues one call to writer A  *)
(* and the same call, its attributes inserted in another order, to writer  *)
(* B, a DotWriter with a sink of its own.                                  *)
(***************************************************************************)
Call(op, a, b, what, attrs) == [op |-> op, a |-> a, b |-> b, what |-> what, attrs |-> attrs]

\* the call c made on writer w
RunCall(w, c) ==
    CASE c.op = "begin_graph" -> begin_graph(w, c.attrs)
      [] c.op = "end_graph" -> end_graph(w)
      [] c.op = "begin_subgraph" -> begin_subgraph(w, c.a, c.attrs)
      [] c.op = "end_subgraph" -> end_subgraph(w)
      [] c.op = "attr" -> attr(w, c.what, c.attrs)
      [] c.op = "node" -> node(w, c.a, c.attrs)
      [] c.op = "edge" -> edge(w, c.a, c.b, c.attrs)
      [] c.op = "id" -> id(w, c.a)

\* what a call left behind, for the claims: the sink before it, the dict it
\* was given, the exception it raised, the keys it rendered
Last(op, before, attrs, w) ==
    [op |-> op, before |-> before, attrs |-> attrs, err |-> w.err, keys |-> w.keys]

\* the insertion orders of the items of dict d
Orders(d) ==
    {[i \in 1..Len(d) |-> d[p[i]]] :
        p \in {q \in [1..Len(d) -> 1..Len(d)] : \A i, j \in 1..Len(d) : q[i] = q[j] => i = j}}

Issue(c, attrsB) ==
    LET wa == RunCall(Writer(sinkA), c)
        wb == RunCall(Writer(sinkB), [c EXCEPT !.attrs = attrsB])
    IN  /\ sinkA' = wa.fp
        /\ sinkB' = wb.fp
        /\ calls' = Append(calls, c)
        /\ lastA' = Last(c.op, sinkA, c.attrs, wa)
        /\ lastB' = Last(c.op, sinkB, attrsB, wb)
        /\ UNCHANGED resolverVars

BeginGraph(dicts, limit) ==
    /\ Len(calls) < limit
    /\ \E attrs \in dicts : \E attrsB \in Orders(attrs) :
           Issue(Call("begin_graph", NoneV, NoneV, <<>>, attrs), attrsB)

EndGraph(limit) ==
    /\ Len(calls) < limit
    /\ Issue(Call("end_graph", NoneV, NoneV, <<>>, <<>>), <<>>)

BeginSubgraph(ids, dicts, limit) ==
    /\ Len(calls) < limit
    /\ \E subgraph \in ids, attrs \in dicts : \E attrsB \in Orders(attrs) :
           Issue(Call("begin_subgraph", subgraph, NoneV, <<>>, attrs), attrsB)

EndSubgraph(limit) ==
    /\ Len(calls) < limit
    /\ Issue(Call("end_subgraph", NoneV, NoneV, <<>>, <<>>), <<>>)

Attr(whats, dicts, limit) ==
    /\ Len(calls) < limit
    /\ \E what \in whats, attrs \in dicts : \E attrsB \in Orders(attrs) :
           Issue(Call("attr", NoneV, NoneV, what, attrs), attrsB)

Node(ids, dicts, limit) ==
    /\ Len(calls) < limit
    /\ \E n \in ids, attrs \in dicts : \E attrsB \in Orders(attrs) :
           Issue(Call("node", n, NoneV, <<>>, attrs), attrsB)

Edge(ids, dicts, limit) ==
    /\ Len(calls) < limit
    /\ \E src \in ids, dst \in ids, attrs \in dicts : \E attrsB \in Orders(attrs) :
           Issue(Call("edge", src, dst, <<>>, attrs), attrsB)

Id(values, limit) ==
    /\ Len(calls) < limit
    /\ \E v \in values :
           Issue(Call("id", v, NoneV, <<>>, <<>>), <<>>)

(***************************************************************************)
(* The resolver as a state machine: one action per public function.        *)
(***************************************************************************)
NameChars == {"/", "a"}

Names == StringsUpTo(NameChars, MaxNameLen)

\* remote node names given to the get_*_info functions
RemoteNames == {<<"a">>, <<"/", "a", "/", "a">>}

\* the (name, namespace) pairs node.get_node_names_and_namespaces() can hold:
\* the namespace of a node is absolute
RawNodePairs ==
    {<<<<"a">>, <<"/">>>>, <<<<"_", "a">>, <<"/", "a">>>>,
     <<<<>>, <<"/", "a">>>>, <<<<"a">>, <<"/", "a", "/">>>>}

RawNodeLists == StringsUpTo(RawNodePairs, MaxPairs)

TopicTypes == <<<<"t">>>>

\* the (name, types) lists the node's *_names_and_types_by_node can return
RawTopicLists ==
    {<<>>,
     <<<<<<"/", "a">>, TopicTypes>>, <<<<"/", "_", "a">>, TopicTypes>>>>,
     <<<<<<"/", "a", "/", "_", "a">>, TopicTypes>>, <<<<"/", "a", "_", "/", "a">>, TopicTypes>>>>}

TopicFunctions == {"get_subscriber_info", "get_publisher_info",
                   "get_service_client_info", "get_service_server_info"}

ActionFunctions == {"get_action_server_info", "get_action_client_info"}

Result(op, arg, raw, flag, err, rec, recs, topics) ==
    [op |-> op, arg |-> arg, raw |-> raw, flag |-> flag, err |-> err,
     rec |-> rec, recs |-> recs, topics |-> topics]

NoResult == Result("none", <<>>, <<>>, FALSE, "", NoNodeName, <<>>, <<>>)

ParseNodeName ==
    \E name \in Names :
        LET r == parse_node_name(name, g_id)
        IN  /\ g_id < MaxIds
            /\ g_id' = r.g
            /\ issued' = issued \o r.ids
            /\ result' = Result("parse_node_name", name, <<>>, FALSE, r.err, r.rec, <<>>, <<>>)
            /\ repeat' = (result.op = "parse_node_name" /\ result.arg = name)
            /\ UNCHANGED writerVars

GetNodeNames ==
    \E raw \in RawNodeLists, include_hidden_nodes \in BOOLEAN :
        LET r == get_node_names(raw, include_hidden_nodes, g_id)
        IN  /\ r.g <= MaxIds
            /\ g_id' = r.g
            /\ issued' = issued \o r.ids
            /\ result' = Result("get_node_names", <<>>, raw, include_hidden_nodes, "",
                                NoNodeName, r.recs, <<>>)
            /\ repeat' = FALSE
            /\ UNCHANGED writerVars

GetTopicsInfo ==
    \E f \in TopicFunctions, name \in RemoteNames, raw \in RawTopicLists, include_hidden \in BOOLEAN :
        LET r == get_topics(name, raw, include_hidden, g_id)
        IN  /\ g_id < MaxIds
            /\ g_id' = r.g
            /\ issued' = issued \o r.ids
            /\ result' = Result(f, name, raw, include_hidden, r.err, NoNodeName, <<>>, r.topics)
            /\ repeat' = FALSE
            /\ UNCHANGED writerVars

GetActionInfo ==
    \E f \in ActionFunctions, name \in RemoteNames, raw \in RawTopicLists, include_hidden \in BOOLEAN :
        LET r == get_action_info(name, raw, include_hidden, g_id)
        IN  /\ g_id < MaxIds
            /\ g_id' = r.g
            /\ issued' = issued \o r.ids
            /\ result' = Result(f, name, raw, include_hidden, r.err, NoNodeName, <<>>, r.topics)
            /\ repeat' = FALSE
            /\ UNCHANGED writerVars

NoCall == [op |-> "none", before |-> <<>>, attrs |-> <<>>, err |-> "", keys |-> <<>>]

WriterIdle ==
    /\ sinkA = <<>>
    /\ sinkB = <<>>
    /\ calls = <<>>
    /\ lastA = NoCall
    /\ lastB = NoCall

ResolverIdle ==
    /\ g_id = 0
    /\ issued = <<>>
    /\ result = NoResult
    /\ repeat = FALSE

Init == ResolverIdle /\ WriterIdle

NextResolver == ParseNodeName \/ GetNodeNames \/ GetTopicsInfo \/ GetActionInfo

SpecResolver == Init /\ [][NextResolver]_vars

(***************************************************************************)
(* The writer under call sequences (Spec) and under one call with a wide   *)
(* range of arguments (SpecStatement).                                     *)
(***************************************************************************)
Item(k, v) == [k |-> k, v |-> v]

SeqIds == {StrV(<<"n", "1">>), ListV}

SeqDicts ==
    {<<>>,
     <<Item(<<"b">>, NoneV)>>,
     <<Item(<<"b">>, ListV), Item(<<"a", "b">>, IntV(1))>>,
     <<Item(<<"b">>, StrV(<<"x", " ", "y">>)), Item(<<"B">>, IntV(1))>>}

Whats == {<<"n", "o", "d", "e">>}

NextSeq ==
    \/ BeginGraph(SeqDicts, MaxCalls)
    \/ EndGraph(MaxCalls)
    \/ BeginSubgraph(SeqIds, SeqDicts, MaxCalls)
    \/ EndSubgraph(MaxCalls)
    \/ Attr(Whats, SeqDicts, MaxCalls)
    \/ Node(SeqIds, SeqDicts, MaxCalls)
    \/ Edge(SeqIds, SeqDicts, MaxCalls)

Spec == Init /\ [][NextSeq]_vars

Keys == {<<"b">>, <<"a", "b">>, <<"B">>}

AttrValues == {NoneV, IntV(1), StrV(<<"x", " ", "y">>), ListV}

\* the dicts of at most MaxAttrs items over Keys, in every insertion order
StatementDicts ==
    {d \in StringsUpTo({Item(k, v) : k \in Keys, v \in AttrValues}, MaxAttrs) :
        \A i, j \in 1..Len(d) : d[i].k = d[j].k => i = j}

StatementIds ==
    {IntV(0 - 7), FloatV(15), BoolV(TRUE), StrV(<<"n", "1">>), StrV(<<"a", " ", "b">>),
     NoneV, ListV}

EdgeIds == {IntV(0 - 7), StrV(<<"n", "1">>), ListV}

IdChars == {"a", "n", "x", "0", " ", "\\", "\n", "\t", "\""}

IdStrings == {StrV(s) : s \in StringsUpTo(IdChars, MaxStrLen)}

\* one call on a new writer
NextStatement ==
    \/ BeginGraph(StatementDicts, 1)
    \/ EndGraph(1)
    \/ BeginSubgraph(StatementIds, StatementDicts, 1)
    \/ EndSubgraph(1)
    \/ Attr(Whats, StatementDicts, 1)
    \/ Node(StatementIds, StatementDicts, 1)
    \/ Edge(EdgeIds, StatementDicts, 1)
    \/ Id(StatementIds \cup IdStrings, 1)

SpecStatement == Init /\ [][NextStatement]_vars

(***************************************************************************)
(* Claims about the resolver, checked under SpecResolver.                  *)
(***************************************************************************)
\* the value of a decimal digit
DigitValue(c) == CHOOSE d \in 0..9 : Digits[d + 1] = c

\* the number a string of decimal digits denotes
RECURSIVE ParseNat(_)
ParseNat(s) ==
    IF s = <<>> THEN 0
    ELSE 10 * ParseNat(SubSeq(s, 1, Len(s) - 1)) + DigitValue(s[Len(s)])

\* the counter value an id carries after its prefix
CounterOf(ident) == ParseNat(SubSeq(ident, Len(NODE_PREFIX) + 1, Len(ident)))

\* namespace and basename joined with one '/', none added after a namespace
\* that ends with '/'
JoinName(namespace, name) ==
    namespace \o (IF endswith(namespace, <<"/">>) THEN <<>> ELSE <<"/">>) \o name

\* C2: the record parse_node_name returns has full_name equal to namespace,
\* then '/' unless the namespace ends with '/', then name, for every name.
C2_FullNameIsJoin ==
    (result.op = "parse_node_name" /\ result.err = "")
        => result.rec.full_name = JoinName(result.rec.namespace, result.rec.name)

\* C3: the ids issued so far are pairwise distinct and carry strictly
\* increasing counter values, the counter is the value the last id carries
\* (never reset, never decreased), and two parse_node_name calls of one name
\* return different ids.
C3_IdsFreshAndIncreasing ==
    /\ \A i, j \in 1..Len(issued) :
           i < j => /\ issued[i] # issued[j]
                    /\ CounterOf(issued[i]) < CounterOf(issued[j])
    /\ g_id = IF issued = <<>> THEN 0 ELSE CounterOf(issued[Len(issued)])
    /\ \A i \in 1..Len(issued) : startswith(issued[i], NODE_PREFIX)
    /\ repeat => /\ Len(issued) >= 2
                 /\ result.rec.id = issued[Len(issued)]
                 /\ result.rec.id # issued[Len(issued) - 1]

\* C3's case: the same name parsed twice in a row, the counter past one digit
C3_Witness == repeat /\ g_id >= 10

Visible(t) == t[1] # <<>> /\ t[1][1] # HIDDEN_NODE_PREFIX[1]

\* the (name, namespace) pairs of a list of records
PairsOf(recs) == [i \in 1..Len(recs) |-> <<recs[i].name, recs[i].namespace>>]

\* C7: without include_hidden_nodes get_node_names returns, in input order,
\* exactly the raw pairs with a basename neither empty nor hidden; with it,
\* one record for every raw pair.
C7_NodeNamesFilter ==
    result.op = "get_node_names"
        => PairsOf(result.recs) = IF result.flag THEN result.raw
                                  ELSE SelectSeq(result.raw, Visible)

\* C7's case: hidden and empty basenames listed because the flag is set
C7_Witness ==
    /\ result.op = "get_node_names"
    /\ result.flag
    /\ Len(result.recs) = Len(result.raw)
    /\ \E i \in 1..Len(result.raw) : result.raw[i][1] = <<>>
    /\ \E i \in 1..Len(result.raw) : startswith(result.raw[i][1], HIDDEN_NODE_PREFIX)

(***************************************************************************)
(* Claims about the writer.                                                *)
(***************************************************************************)
\* the last call issued
LastCall == calls[Len(calls)]

\* the text the last call put in sink A
Written == SubSeq(sinkA, Len(lastA.before) + 1, Len(sinkA))

\* text holds the two characters c1 c2 in a row
HasPair(text, c1, c2) == \E i \in 1..(Len(text) - 1) : text[i] = c1 /\ text[i + 1] = c2

\* text holds the character c
HasChar(text, c) == \E i \in 1..Len(text) : text[i] = c

\* a value DotWriter.id formats: a number or a string
Supported(v) == v.t \in {"int", "float", "bool", "str"}

\* the identifiers a call passes to DotWriter.id
Identifiers(c) ==
    CASE c.op \in {"begin_subgraph", "node", "id"} -> {c.a}
      [] c.op = "edge" -> {c.a, c.b}
      [] OTHER -> {}

\* a call with an identifier or a non-null attribute value of another type
HasUnsupported(c) ==
    \/ \E v \in Identifiers(c) : ~Supported(v)
    \/ \E i \in 1..Len(c.attrs) : c.attrs[i].v # NoneV /\ ~Supported(c.attrs[i].v)

\* C1: with an empty mapping or every value None, node, edge and attr emit
\* no bracketed list: no '[' and no ']' is written.
C1_NoBracketsWhenAllNull ==
    (/\ lastA.op \in {"node", "edge", "attr"}
     /\ lastA.err = ""
     /\ \A i \in 1..Len(LastCall.attrs) : LastCall.attrs[i].v = NoneV)
        => ~HasChar(Written, "[") /\ ~HasChar(Written, "]")

\* keys is strictly ascending in the order of str
Ascending(keys) == \A i \in 1..(Len(keys) - 1) : StrLess(keys[i], keys[i + 1])

\* the keys of a dict whose value is not None
SetKeys(d) == {d[i].k : i \in {j \in 1..Len(d) : d[j].v # NoneV}}

\* C5: the same call, its attributes inserted in two orders, writes the same
\* text to the sinks of two writers, and the attributes are rendered in
\* ascending order of their names.
C5_SortedAndDeterministic ==
    calls # <<>> =>
        /\ sinkA = sinkB
        /\ lastA.err = lastB.err
        /\ lastA.keys = lastB.keys
        /\ Ascending(lastA.keys)
        /\ lastA.err = "" => /\ {lastA.keys[i] : i \in 1..Len(lastA.keys)} = SetKeys(lastA.attrs)
                             /\ Len(lastA.keys) = Cardinality(SetKeys(lastA.attrs))

\* C5's case: two set attributes, given to the two writers in opposite orders
C5_Witness ==
    /\ lastA.op = "node"
    /\ lastA.err = ""
    /\ Len(lastA.keys) >= 2
    /\ lastA.attrs # lastB.attrs
    /\ StrLess(lastA.attrs[2].k, lastA.attrs[1].k)

\* one character escaped on its own
EscapedChar(c) ==
    CASE c = "\\" -> <<"\\", "\\">>
      [] c = "\n" -> <<"\\", "n">>
      [] c = "\t" -> <<"\\", "t">>
      [] c = "\"" -> <<"\\", "\"">>
      [] OTHER -> <<c>>

\* every character of s escaped on its own, in place
RECURSIVE EscapedText(_)
EscapedText(s) == IF s = <<>> THEN <<>> ELSE EscapedChar(Head(s)) \o EscapedText(Tail(s))

\* s is written as it is: alphanumeric characters only, at least one, and
\* no leading 0x
Plain(s) ==
    /\ s # <<>>
    /\ \A i \in 1..Len(s) : s[i] \in AlnumChars
    /\ ~(Len(s) >= 2 /\ s[1] = "0" /\ s[2] = "x")

\* C6: id(s) writes the string s unchanged when it is alphanumeric and does
\* not start with 0x, and otherwise a double quote, s with backslash, newline,
\* tab and double quote escaped and nothing else altered, and a double quote.
C6_IdOfString ==
    (lastA.op = "id" /\ LastCall.a.t = "str")
        => /\ lastA.err = ""
           /\ Written = IF Plain(LastCall.a.s) THEN LastCall.a.s
                        ELSE <<"\"">> \o EscapedText(LastCall.a.s) \o <<"\"">>

\* C6's case: a string with a backslash before a newline
C6_Witness ==
    /\ lastA.op = "id"
    /\ LastCall.a = StrV(<<"\\", "\n", "n">>)
    /\ Len(Written) = 7

\* the text a call writes on a writer with an empty sink
OwnText(c) == RunCall(Writer(<<>>), c).fp

\* the texts of the calls cs, one after the other
RECURSIVE TextOf(_)
TextOf(cs) == IF cs = <<>> THEN <<>> ELSE OwnText(Head(cs)) \o TextOf(Tail(cs))

\* C8: any sequence of calls with supported values is accepted, balanced or
\* not, and the sink then holds the texts the calls emit on their own, in
\* call order.
C8_SinkIsConcatenation ==
    (\A i \in 1..Len(calls) : ~HasUnsupported(calls[i]))
        => /\ lastA.err = ""
           /\ sinkA = TextOf(calls)

\* C8's case: end_graph before any begin_graph, then more calls
C8_Witness ==
    /\ Len(calls) >= 2
    /\ calls[1].op = "end_graph"
    /\ calls[2].op = "begin_subgraph"
    /\ ~HasUnsupported(calls[2])
    /\ Len(sinkA) > 2

\* C9: begin_graph, begin_subgraph, node and edge fail with TypeError when an
\* identifier or a non-null attribute value is neither a number nor a string,
\* the error reaches the caller as raised, and None values cause no error.
C9_UnsupportedTypeRaises ==
    lastA.op \in {"begin_graph", "begin_subgraph", "node", "edge"}
        => /\ HasUnsupported(LastCall) => lastA.err = "TypeError"
           /\ ~HasUnsupported(LastCall) => lastA.err = ""

\* C9's case: a value of another type beside a None, under a good identifier
C9_Witness ==
    /\ lastA.op = "node"
    /\ lastA.err = "TypeError"
    /\ Supported(LastCall.a)
    /\ \E i \in 1..Len(LastCall.attrs) : LastCall.attrs[i].v = NoneV
    /\ \E i \in 1..Len(LastCall.attrs) : LastCall.attrs[i].v = ListV

\* a value of an unsupported type replaced by a number
Repaired(v) == IF Supported(v) \/ v = NoneV THEN v ELSE IntV(0)

\* the call with every unsupported value replaced by a supported one
RepairedCall(c) ==
    [c EXCEPT !.a = IF Supported(@) THEN @ ELSE IntV(0),
              !.b = IF Supported(@) THEN @ ELSE IntV(0),
              !.attrs = [i \in 1..Len(c.attrs) |-> Item(c.attrs[i].k, Repaired(c.attrs[i].v))]]

\* a is a proper prefix of b, and not empty
ProperPrefix(a, b) == a # <<>> /\ Len(a) < Len(b) /\ SubSeq(b, 1, Len(a)) = a

\* what a failed call leaves in the sink: the text before it, then a
\* non-empty proper prefix of the call's text
PartialText ==
    /\ startswith(sinkA, lastA.before)
    /\ ProperPrefix(Written, OwnText(RepairedCall(LastCall)))

FailedEmission ==
    /\ lastA.op \in {"begin_graph", "begin_subgraph", "node", "edge"}
    /\ lastA.err # ""

\* C10 as stated: a failed node, edge, begin_graph or begin_subgraph leaves
\* the text before it and a non-empty proper prefix of its own text, and
\* never writes ';\n'.
C10_NoTerminatorWritten ==
    FailedEmission => PartialText /\ ~HasPair(Written, ";", "\n")

\* C10 amended: a failed call leaves the text before it and a non-empty
\* proper prefix of its own text, which does not end with ';\n'; a failed
\* node or edge writes no ';\n' at all, while begin_graph and begin_subgraph
\* have written the statements of the earlier attributes, each with its ';\n'.
C10_FailedStatementUnterminated ==
    FailedEmission =>
        /\ PartialText
        /\ ~endswith(Written, <<";", "\n">>)
        /\ lastA.op \in {"node", "edge"} => ~HasPair(Written, ";", "\n")

\* C10's case: begin_subgraph fails on its second attribute after text
\* was written by an earlier call
C10_Witness ==
    /\ FailedEmission
    /\ lastA.op = "begin_subgraph"
    /\ lastA.before # <<>>
    /\ HasPair(Written, ";", "\n")

====
